---- MODULE Spec2Model ----
(***************************************************************************)
(* Model of the asynchronous HTTP I/O core of coro-http.                   *)
(*                                                                         *)
(*   Client: one Fetch on CurlHttpImpl - a CurlHandle, its owner (the      *)
(*   pending CurlHttpOperation, later the CurlHttpBodyGenerator), the      *)
(*   libevent user events, the awaiting coroutine and the downstream body  *)
(*   consumer.  The native transport (libcurl) is the environment: it      *)
(*   calls the header/write/read callbacks and reports completion.         *)
(*                                                                         *)
(*   Server: HttpServer<Handler> - OnHttpRequest connection tasks, Quit,   *)
(*   the quit event and the quit semaphore.                                *)
(*                                                                         *)
(* Every action is one callback frame of the single-threaded event loop.   *)
(*                                                                         *)
(* Specifications: Spec (one Fetch, download side and pump), UploadSpec    *)
(* (the constructor's configuration and the request-body pump over every   *)
(* request), HeaderSpec (the response head line by line), ServerSpec.      *)
(***************************************************************************)
EXTENDS Integers, Sequences, FiniteSets, TLC

\* ------------------------------------------------------------------ bounds
MaxBytes == 3     \* bytes of response body the transport may deliver
MaxWrite == 2     \* largest size*nmemb of a single write callback
MaxCloses == 3    \* cap of the counter of terminal Close calls
MaxConns == 2     \* connection tasks the server may have accepted
MaxChunks == 2    \* chunks of a server response body
MaxBodyChunks == 2  \* chunks of a request body
MaxChunkSize == 2   \* bytes of one request-body chunk
MaxRead == 2        \* largest size*nitems of a single read callback
MaxHeaders == 2     \* headers of a request
MaxHeaderLines == 3 \* header lines collected for one response

NoStatus == -1    \* status_ before any status is known
StatusCodes == {100, 200}
CURLE_OK == 0
CURLE_ERR == 7    \* any CURLcode other than CURLE_OK
NullOpt == -1     \* std::nullopt of request_body_it_, request_body_chunk_index_
                  \* and content_length

VARIABLES
  op,          \* CurlHttpOperation
  handle,      \* CurlHandle
  gen,         \* CurlHttpBodyGenerator (derived part)
  stream,      \* HttpBodyGenerator base: buffered bytes and terminal close
  awaiter,     \* the coroutine awaiting the operation (CurlHttpBase::Fetch)
  loop,        \* one-shot events posted with event_base_once
  transport,   \* libcurl's view of the transfer
  stop,        \* the caller's stop token
  trace,       \* history of the run (what was accepted, delivered, recorded)
  server,      \* HttpServer fields
  conns        \* connection tasks of the server

cvars == <<op, handle, gen, stream, awaiter, loop, transport, stop, trace>>
svars == <<server, conns>>
vars == <<op, handle, gen, stream, awaiter, loop, transport, stop, trace,
          server, conns>>

\* ------------------------------------------------------------ client state
InitOp ==
  [alive |-> FALSE, awaiting_coroutine_ |-> FALSE, exception_ptr_ |-> "none",
   headers_ready_active |-> FALSE, headers_ready_event_posted_ |-> FALSE,
   status_ |-> NoStatus, headers_ |-> <<>>, body_ |-> <<>>,
   no_body_ |-> FALSE]

\* request_body_it_ is a position in request_body_: 1..Len is a chunk,
\* Len + 1 is std::end.
InitHandle ==
  [alive |-> FALSE, http_ |-> FALSE, registered |-> FALSE, owner |-> "op",
   has_body |-> FALSE, request_body_ |-> <<>>, request_body_it_ |-> NullOpt,
   request_body_chunk_index_ |-> NullOpt, advancing |-> FALSE,
   next_chunk_active |-> FALSE]

InitGen ==
  [alive |-> FALSE, chunk_ready_active |-> FALSE, body_ready_active |-> FALSE,
   body_ready_fired_ |-> FALSE, status_ |-> NoStatus, exception_ptr_ |-> "none",
   data_ |-> <<>>]

InitStream ==
  [buffered |-> <<>>, closes |-> 0, closed_with |-> "none",
   closed_status |-> NoStatus]

InitAwaiter ==
  [pc |-> "idle", resumes |-> 0, observed |-> "none", status |-> NoStatus]

InitLoop == [resume_posted |-> "none"]

\* post, upload, postfieldsize, infilesize: CURLOPT_POST, CURLOPT_UPLOAD,
\* CURLOPT_POSTFIELDSIZE_LARGE and CURLOPT_INFILESIZE_LARGE as set on the
\* easy handle.
InitTransport ==
  [state |-> "idle", code |-> NoStatus, sent |-> 0, recv_paused |-> FALSE,
   send_paused |-> FALSE, post |-> FALSE, upload |-> FALSE,
   postfieldsize |-> NullOpt, infilesize |-> NullOpt]

\* ---------------------------------------------------------------- requests
\* A request body is a sequence of chunks; byte j of chunk k is 10 * k + j, so
\* that every byte of a body differs from every other.
Body(lens) == [k \in 1..Len(lens) |-> [j \in 1..lens[k] |-> 10 * k + j]]

Bodies ==
  {Body(lens) : lens \in UNION {[1..n -> 0..MaxChunkSize] :
                                  n \in 0..MaxBodyChunks}}

RECURSIVE Flatten(_)
Flatten(chunks) ==
  IF chunks = <<>> THEN <<>> ELSE Head(chunks) \o Flatten(Tail(chunks))

ContentLength ==
  <<"C", "o", "n", "t", "e", "n", "t", "-", "L", "e", "n", "g", "t", "h">>
content_length ==
  <<"c", "o", "n", "t", "e", "n", "t", "-", "l", "e", "n", "g", "t", "h">>
CONTENT_LENGTH ==
  <<"C", "O", "N", "T", "E", "N", "T", "-", "L", "E", "N", "G", "T", "H">>

\* The headers a request may carry, each with a value of its own.
HeaderChoices ==
  {[name |-> ContentLength, value |-> <<"1", "1">>],
   [name |-> content_length, value |-> <<" ", "7">>],
   [name |-> CONTENT_LENGTH, value |-> <<"5">>],
   [name |-> <<"X", "-", "A">>, value |-> <<"9">>]}

HeaderLists == UNION {[1..n -> HeaderChoices] : n \in 0..MaxHeaders}

Methods == {"GET", "POST", "PUT"}

NoRequest == [method |-> "GET", headers |-> <<>>, has_body |-> FALSE,
              body |-> <<>>]

\* Requests that differ in what the constructor configures.
ConfigRequests ==
  {[method |-> m, headers |-> h, has_body |-> b,
    body |-> IF b THEN Body(<<1>>) ELSE <<>>] :
     m \in Methods, h \in HeaderLists, b \in BOOLEAN}

\* Requests that differ in what the producer yields.
PumpRequests ==
  {[method |-> "PUT", headers |-> <<>>, has_body |-> TRUE, body |-> b] :
     b \in Bodies}

Requests == ConfigRequests \cup PumpRequests

PlainRequests ==
  {NoRequest,
   [method |-> "POST", headers |-> <<>>, has_body |-> TRUE,
    body |-> Body(<<1>>)]}

InitTrace ==
  [accepted |-> <<>>, received |-> <<>>, received_after_close |-> FALSE,
   first_recorded |-> "none", stop_while_pending |-> FALSE,
   handle_exception_ran |-> FALSE, sync_resume |-> FALSE,
   unread_writes |-> 0, unread_gen_writes |-> 0,
   ub |-> FALSE,
   request |-> NoRequest, uploaded |-> <<>>,
   last_read |-> "none", producer_failed |-> "none",
   uploaded_after_failure |-> FALSE,
   want_status |-> NoStatus, want_headers |-> <<>>,
   body_ready_triggers |-> 0, read_paused |-> FALSE,
   recv_cont_closed |-> FALSE]

\* The whole client state as one value, so that the methods below compose the
\* way the calls in the source nest.
Cur ==
  [op |-> op, handle |-> handle, gen |-> gen, stream |-> stream,
   awaiter |-> awaiter, loop |-> loop, transport |-> transport,
   stop |-> stop, trace |-> trace]

Becomes(s) ==
  /\ op' = s.op
  /\ handle' = s.handle
  /\ gen' = s.gen
  /\ stream' = s.stream
  /\ awaiter' = s.awaiter
  /\ loop' = s.loop
  /\ transport' = s.transport
  /\ stop' = s.stop
  /\ trace' = s.trace

Min(a, b) == IF a < b THEN a ELSE b

Sign(n) == IF n > 0 THEN 1 ELSE 0

\* ------------------------------------------------------------------ strings
\* A string is a sequence of characters; "CR", "LF" and "TAB" stand for the
\* control characters.
UpperCase ==
  <<"A", "B", "C", "D", "E", "F", "G", "H", "I", "J", "K", "L", "M",
    "N", "O", "P", "Q", "R", "S", "T", "U", "V", "W", "X", "Y", "Z">>
LowerCase ==
  <<"a", "b", "c", "d", "e", "f", "g", "h", "i", "j", "k", "l", "m",
    "n", "o", "p", "q", "r", "s", "t", "u", "v", "w", "x", "y", "z">>
Digits == <<"0", "1", "2", "3", "4", "5", "6", "7", "8", "9">>
Whitespace == {" ", "CR", "LF", "TAB"}

ToLowerChar(c) ==
  IF \E k \in DOMAIN UpperCase : UpperCase[k] = c
  THEN LowerCase[CHOOSE k \in DOMAIN UpperCase : UpperCase[k] = c]
  ELSE c

ToLowerCase(str) == [k \in DOMAIN str |-> ToLowerChar(str[k])]

RECURSIVE TrimLeft(_)
TrimLeft(str) ==
  IF str # <<>> /\ Head(str) \in Whitespace THEN TrimLeft(Tail(str)) ELSE str

RECURSIVE TrimRight(_)
TrimRight(str) ==
  IF str # <<>> /\ str[Len(str)] \in Whitespace
  THEN TrimRight(SubSeq(str, 1, Len(str) - 1))
  ELSE str

TrimWhitespace(str) == TrimRight(TrimLeft(str))

IsDigit(c) == \E k \in DOMAIN Digits : Digits[k] = c

DigitValue(c) == (CHOOSE k \in DOMAIN Digits : Digits[k] = c) - 1

\* The value of the longest prefix of decimal digits of str, 0 if none.
RECURSIVE ParseDigits(_, _)
ParseDigits(str, acc) ==
  IF str # <<>> /\ IsDigit(Head(str))
  THEN ParseDigits(Tail(str), 10 * acc + DigitValue(Head(str)))
  ELSE acc

\* std::stoll on a string that holds a number: leading whitespace is skipped,
\* the digits are read up to the first other character.
stoll(str) == ParseDigits(TrimLeft(str), 0)

\* string_view::find_first_of: the position of the first c, 0 for npos.
FindFirstOf(str, c) ==
  IF \E k \in DOMAIN str : str[k] = c
  THEN CHOOSE k \in DOMAIN str :
         str[k] = c /\ \A j \in 1..(k - 1) : str[j] # c
  ELSE 0

\* a and b differ at most in the case of their letters.
EqualsIgnoreCase(a, b) ==
  /\ Len(a) = Len(b)
  /\ \A k \in DOMAIN a :
       \/ a[k] = b[k]
       \/ \E j \in DOMAIN UpperCase :
            {a[k], b[k]} = {UpperCase[j], LowerCase[j]}

StartsWith(str, prefix) ==
  /\ Len(str) >= Len(prefix)
  /\ SubSeq(str, 1, Len(prefix)) = prefix

\* The first whitespace-delimited token of str is dropped (operator>> into a
\* std::string).
RECURSIVE SkipToken(_)
SkipToken(str) ==
  IF str # <<>> /\ Head(str) \notin Whitespace
  THEN SkipToken(Tail(str))
  ELSE str

\* stream >> http_version >> code
ParseStatusCode(line) == ParseDigits(TrimLeft(SkipToken(TrimLeft(line))), 0)

\* The decimal digits of a three-digit status code.
Decimal(code) ==
  <<Digits[(code \div 100) + 1], Digits[((code \div 10) % 10) + 1],
    Digits[(code % 10) + 1]>>

StatusLine(code) ==
  <<"H", "T", "T", "P", "/", "2", " ">> \o Decimal(code) \o <<"CR", "LF">>

\* ------------------------------------------- HttpBodyGenerator (base class)
GetBufferedByteCount(s) == Len(s.stream.buffered)

ReceivedData(s, chunk) ==
  [s EXCEPT !.stream.buffered = @ \o chunk,
            !.trace.received = @ \o chunk,
            !.trace.received_after_close = @ \/ (s.stream.closes > 0)]

Close(s, with) ==
  [s EXCEPT !.stream.closes = Min(@ + 1, MaxCloses),
            !.stream.closed_with = IF s.stream.closes = 0 THEN with ELSE @]

\* Close(status): the terminator the reader sees is the status of the first
\* close.
CloseStatus(s, status) ==
  [Close(s, "status") EXCEPT
     !.stream.closed_status = IF s.stream.closes = 0 THEN status ELSE @]

\* ------------------------------------------------------------- CurlHandle
Cleanup(s) ==
  [s EXCEPT !.handle.http_ = FALSE,
            !.handle.registered = IF s.handle.http_ THEN FALSE ELSE @,
            !.transport.state = IF s.handle.http_ /\ s.handle.registered
                                THEN "removed" ELSE @,
            !.handle.next_chunk_active = FALSE]

\* ~CurlHandle, then the deleter of handle_ (curl_easy_cleanup detaches the
\* easy handle from a multi handle it is still attached to).  request_body_
\* dies with the handle, and with it the producer a pump task is waiting for.
DestroyHandle(s) ==
  LET c == Cleanup(s)
  IN [c EXCEPT !.handle.alive = FALSE,
               !.handle.registered = FALSE,
               !.handle.advancing = FALSE,
               !.transport.state = IF c.handle.registered THEN "removed" ELSE @]

\* ~CurlHttpOperation; handle_ is destroyed with it unless it was moved out.
DestroyOperation(s) ==
  LET d == [s EXCEPT !.op.alive = FALSE, !.op.headers_ready_active = FALSE,
                     !.op.awaiting_coroutine_ = FALSE]
  IN IF d.handle.owner = "op" THEN DestroyHandle(d) ELSE d

\* CurlHttpBodyGenerator::CurlHttpBodyGenerator
NewBodyGenerator(s, initial_chunk) ==
  ReceivedData([s EXCEPT !.handle.owner = "gen", !.gen.alive = TRUE],
               initial_chunk)

\* CurlHttpOperation::await_resume, and the end of the co_await expression in
\* CurlHttpBase::Fetch, where the temporary operation is destroyed.
await_resume(s) ==
  IF s.op.exception_ptr_ # "none"
  THEN DestroyOperation([s EXCEPT !.awaiter.observed = s.op.exception_ptr_])
  ELSE LET r == NewBodyGenerator(
                  [s EXCEPT !.awaiter.observed = "response",
                            !.awaiter.status = s.op.status_],
                  s.op.body_)
           c == IF s.op.no_body_ THEN CloseStatus(r, s.op.status_) ELSE r
       IN DestroyOperation([c EXCEPT !.op.body_ = <<>>])

\* coroutine_handle::resume() of the awaiting coroutine.  Resuming a coroutine
\* that is not suspended at the co_await is counted and changes nothing else.
ResumeAwaiter(s) ==
  LET n == [s EXCEPT !.awaiter.resumes = Min(@ + 1, 2)]
  IN IF s.awaiter.pc = "suspended"
     THEN await_resume([n EXCEPT !.awaiter.pc = "done"])
     ELSE n

Record(s, what) ==
  [s EXCEPT !.trace.first_recorded = IF @ = "none" THEN what ELSE @]

HandleException(s, exception) ==
  LET t == [s EXCEPT !.trace.handle_exception_ran = TRUE]
  IN IF t.handle.owner = "op"
     THEN LET c == Record(
                     [Cleanup(t) EXCEPT !.op.exception_ptr_ = exception],
                     exception)
          IN IF c.op.awaiting_coroutine_
             THEN ResumeAwaiter(
                    [c EXCEPT !.op.awaiting_coroutine_ = FALSE,
                              !.trace.sync_resume = TRUE])
             ELSE c
     ELSE Close([Cleanup(t) EXCEPT !.gen.exception_ptr_ = exception],
                "error")

\* ------------------------------------------------------------------ client
\* The bytes the transport offers next: the wire carries 1, 2, 3, ...
Wire(from, n) == [i \in 1..n |-> from + i]

\* stdx::stop_callback<OnCancel>: runs at once if stop was already requested.
OnCancel(s) ==
  HandleException(
    [s EXCEPT !.trace.stop_while_pending = @ \/ (s.handle.owner = "op")],
    "interrupted")

\* The producer of the request body throws in begin() or in operator++: the
\* catch block of the pump task.
ProducerFailed(s) ==
  HandleException([s EXCEPT !.handle.advancing = FALSE,
                            !.trace.producer_failed = s.handle.owner],
                  "producer")

\* AdvanceDone without curl_easy_pause(CURLPAUSE_SEND_CONT).
AdvanceDone_no_resume(s) ==
  [s EXCEPT !.handle.advancing = FALSE,
            !.handle.request_body_it_ = IF @ = NullOpt THEN 1 ELSE @ + 1,
            !.handle.request_body_chunk_index_ = 0]

\* begin() or operator++ completed: the iterator is stored, the index is
\* reset and curl_easy_pause(CURLPAUSE_SEND_CONT) is called.
AdvanceDone(s) ==
  [s EXCEPT !.handle.advancing = FALSE,
            !.handle.request_body_it_ = IF @ = NullOpt THEN 1 ELSE @ + 1,
            !.handle.request_body_chunk_index_ = 0,
            !.transport.send_paused = FALSE]

\* The body of the pump task.  how = "sync_ok": the producer completes at
\* once; "sync_throw": it throws at once; "async": the task suspends.
Advance(s, how) ==
  CASE how = "sync_ok" -> AdvanceDone(s)
    [] how = "sync_throw" -> ProducerFailed(s)
    [] OTHER -> [s EXCEPT !.handle.advancing = TRUE]

\* RunTask in the constructor: obtain the first chunk iterator.
StartRequestBody(s, first) == Advance(s, first)

\* The loop over request.headers: the last content-length header wins.
RECURSIVE ContentLengthHeader(_)
ContentLengthHeader(headers) ==
  IF headers = <<>>
  THEN NullOpt
  ELSE LET last == headers[Len(headers)]
       IN IF ToLowerCase(last.name) = content_length
          THEN stoll(last.value)
          ELSE ContentLengthHeader(SubSeq(headers, 1, Len(headers) - 1))

\* Configure comparing the header name as the caller wrote it.
Configure_exact_name(s, request) ==
  LET size == IF \E k \in DOMAIN request.headers :
                    request.headers[k].name = content_length
              THEN stoll(request.headers[
                     CHOOSE k \in DOMAIN request.headers :
                       /\ request.headers[k].name = content_length
                       /\ \A j \in (k + 1)..Len(request.headers) :
                            request.headers[j].name # content_length].value)
              ELSE NullOpt
  IN IF ~request.has_body
     THEN s
     ELSE IF request.method = "POST"
     THEN [s EXCEPT !.transport.post = TRUE,
                    !.transport.postfieldsize = size]
     ELSE [s EXCEPT !.transport.upload = TRUE,
                    !.transport.infilesize = size]

\* Lines 546-576 of the constructor: the transfer mode and the body size.
Configure(s, request) ==
  LET size == ContentLengthHeader(request.headers)
  IN IF ~request.has_body
     THEN s
     ELSE IF request.method = "POST"
     THEN [s EXCEPT !.transport.post = TRUE,
                    !.transport.postfieldsize = size]
     ELSE [s EXCEPT !.transport.upload = TRUE,
                    !.transport.infilesize = size]

\* CurlHttpOperation::CurlHttpOperation -> CurlHandle::CurlHandle
NewCurlHandle(s, request, first) ==
  LET m == [s EXCEPT !.op = [InitOp EXCEPT !.alive = TRUE],
                     !.handle = [InitHandle EXCEPT
                                   !.alive = TRUE,
                                   !.http_ = TRUE,
                                   !.has_body = request.has_body,
                                   !.request_body_ = request.body],
                     !.trace.request = request]
      c == IF s.stop THEN OnCancel(m) ELSE m
      g == Configure(c, request)
      b == IF request.has_body THEN StartRequestBody(g, first) ELSE g
  IN [b EXCEPT !.handle.registered = TRUE, !.transport.state = "running"]

\* CurlHttpImpl::Fetch: the operation is constructed and returned.
Fetch(request, first) ==
  /\ awaiter.pc = "idle"
  /\ ~request.has_body => first = "sync_ok"
  /\ Becomes([NewCurlHandle(Cur, request, first)
                EXCEPT !.awaiter.pc = "constructed"])
  /\ UNCHANGED svars

await_ready(s) == s.op.exception_ptr_ # "none" \/ s.op.status_ # NoStatus

\* co_await of the operation in CurlHttpBase::Fetch, in the frame Fetch ran in.
Await ==
  /\ awaiter.pc = "constructed"
  /\ Becomes(IF await_ready(Cur)
             THEN await_resume([Cur EXCEPT !.awaiter.pc = "done"])
             ELSE [Cur EXCEPT !.awaiter.pc = "suspended",
                              !.op.awaiting_coroutine_ = TRUE])
  /\ UNCHANGED svars

\* No other callback runs between Fetch returning and the co_await.
Dispatching == awaiter.pc # "constructed"

\* stop_source::request_stop() of the caller.
RequestStop ==
  /\ Dispatching
  /\ ~stop
  /\ Becomes(LET s == [Cur EXCEPT !.stop = TRUE]
             IN IF s.handle.alive THEN OnCancel(s) ELSE s)
  /\ UNCHANGED svars

Running == Dispatching /\ handle.registered /\ transport.state = "running"

HTTP == <<"H", "T", "T", "P">>

\* The body of CurlHandle::HeaderCallback for an owner that is the operation.
HeaderCallbackOp(s, line) ==
  LET index == FindFirstOf(line, ":")
  IN IF index # 0
     THEN [s EXCEPT !.op.headers_ =
                       Append(@, <<ToLowerCase(SubSeq(line, 1, index - 1)),
                                   TrimWhitespace(
                                     SubSeq(line, index + 1, Len(line)))>>)]
     ELSE IF StartsWith(line, HTTP)
     THEN [s EXCEPT !.op.headers_ = <<>>,
                    !.op.status_ = ParseStatusCode(line)]
     ELSE s

\* What the transport itself makes of the line (the response code that
\* curl_easy_getinfo reports) and what a reader of the response head expects:
\* a line that begins with HTTP is a status line, any other line with a colon
\* is a header.
HeadLine(s, line) ==
  IF StartsWith(line, HTTP)
  THEN [s EXCEPT !.transport.code = ParseStatusCode(line),
                 !.trace.want_status = ParseStatusCode(line),
                 !.trace.want_headers = <<>>]
  ELSE LET index == FindFirstOf(line, ":")
       IN IF index # 0
          THEN [s EXCEPT !.trace.want_headers =
                   Append(@, <<ToLowerCase(SubSeq(line, 1, index - 1)),
                               TrimWhitespace(
                                 SubSeq(line, index + 1, Len(line)))>>)]
          ELSE s

\* CurlHandle::HeaderCallback with one line of the response head.
HeaderCallback(line) ==
  /\ Running
  /\ transport.sent = 0
  /\ handle.owner = "op"
  /\ ~op.headers_ready_event_posted_
  /\ FindFirstOf(line, ":") # 0 => Len(op.headers_) < MaxHeaderLines
  /\ Becomes(HeaderCallbackOp(HeadLine(Cur, line), line))
  /\ UNCHANGED svars

\* WriteCallbackOp with body_ assigned instead of appended to.
WriteCallbackOp_assign(s, bytes) ==
  [s EXCEPT !.op.headers_ready_event_posted_ = TRUE,
            !.op.headers_ready_active =
               @ \/ ~s.op.headers_ready_event_posted_,
            !.op.body_ = bytes,
            !.transport.sent = @ + Len(bytes),
            !.trace.accepted = @ \o bytes,
            !.trace.unread_writes = @ + Sign(Len(bytes))]

WriteCallbackOp(s, bytes) ==
  [s EXCEPT !.op.headers_ready_event_posted_ = TRUE,
            !.op.headers_ready_active =
               @ \/ ~s.op.headers_ready_event_posted_,
            !.op.body_ = @ \o bytes,
            !.transport.sent = @ + Len(bytes),
            !.trace.accepted = @ \o bytes,
            !.trace.unread_writes = @ + Sign(Len(bytes))]

\* WriteCallbackGen without the GetBufferedByteCount() test.
WriteCallbackGen_data_only(s, bytes) ==
  IF s.gen.data_ # <<>>
  THEN [s EXCEPT !.transport.recv_paused = TRUE]
  ELSE [s EXCEPT !.gen.data_ = @ \o bytes,
                 !.gen.chunk_ready_active = TRUE,
                 !.transport.sent = @ + Len(bytes),
                 !.trace.accepted = @ \o bytes,
                 !.trace.unread_writes = @ + Sign(Len(bytes)),
                 !.trace.unread_gen_writes = @ + Sign(Len(bytes))]

WriteCallbackGen(s, bytes) ==
  IF s.gen.data_ # <<>> \/ GetBufferedByteCount(s) > 0
  THEN [s EXCEPT !.transport.recv_paused = TRUE]
  ELSE [s EXCEPT !.gen.data_ = @ \o bytes,
                 !.gen.chunk_ready_active = TRUE,
                 !.transport.sent = @ + Len(bytes),
                 !.trace.accepted = @ \o bytes,
                 !.trace.unread_writes = @ + Sign(Len(bytes)),
                 !.trace.unread_gen_writes = @ + Sign(Len(bytes))]

\* CurlHandle::WriteCallback with size * nmemb = n.
WriteCallback(n) ==
  /\ Running
  /\ transport.code # NoStatus
  /\ ~transport.recv_paused
  /\ transport.sent + n <= MaxBytes
  /\ Becomes(IF handle.owner = "op"
             THEN WriteCallbackOp(Cur, Wire(transport.sent, n))
             ELSE WriteCallbackGen(Cur, Wire(transport.sent, n)))
  /\ UNCHANGED svars

\* CurlHttpOperation::OnHeadersReady
OnHeadersReady ==
  /\ Dispatching
  /\ op.headers_ready_active
  /\ Becomes(LET s == [Cur EXCEPT !.op.headers_ready_active = FALSE]
             IN IF s.op.awaiting_coroutine_
                THEN ResumeAwaiter([s EXCEPT !.op.awaiting_coroutine_ = FALSE])
                ELSE s)
  /\ UNCHANGED svars

\* ProcessEventsOp reading awaiting_coroutine_ without std::exchange.
ProcessEventsOp_no_exchange(s, result) ==
  LET r == IF result = CURLE_OK
           THEN Record([s EXCEPT !.op.status_ = s.transport.code], "success")
           ELSE Record([s EXCEPT !.op.exception_ptr_ = "transport"],
                       "transport")
  IN [r EXCEPT !.op.no_body_ = TRUE,
               !.loop.resume_posted =
                  IF s.op.awaiting_coroutine_ THEN "coro" ELSE "null"]

ProcessEventsOp(s, result) ==
  LET r == IF result = CURLE_OK
           THEN Record([s EXCEPT !.op.status_ = s.transport.code], "success")
           ELSE Record([s EXCEPT !.op.exception_ptr_ = "transport"],
                       "transport")
  IN [r EXCEPT !.op.no_body_ = TRUE,
               !.loop.resume_posted =
                  IF s.op.awaiting_coroutine_ THEN "coro" ELSE "null",
               !.op.awaiting_coroutine_ = FALSE]

\* evuser_trigger(&body_ready_); body_ready_triggers counts the calls.
TriggerBodyReady(s) ==
  [s EXCEPT !.gen.body_ready_active = TRUE,
            !.trace.body_ready_triggers = Min(@ + 1, 2)]

\* ProcessEventsGen without the test that chunk_ready_ is not pending.
ProcessEventsGen_no_pending_test(s, result) ==
  LET r == [s EXCEPT !.gen.status_ = result,
                     !.gen.exception_ptr_ =
                        IF result # CURLE_OK THEN "transport" ELSE @]
  IN TriggerBodyReady([r EXCEPT !.gen.body_ready_fired_ = TRUE])

\* The branch of ProcessEvents for a handle owned by a body generator.
ProcessEventsGen(s, result) ==
  LET r == [s EXCEPT !.gen.status_ = result,
                     !.gen.exception_ptr_ =
                        IF result # CURLE_OK THEN "transport" ELSE @]
  IN IF ~s.gen.chunk_ready_active
     THEN TriggerBodyReady([r EXCEPT !.gen.body_ready_fired_ = TRUE])
     ELSE r

\* CurlHttpImpl::ProcessEvents reading the CURLMSG_DONE of the transfer.
ProcessEvents(result) ==
  /\ Running
  /\ result = CURLE_OK => transport.code # NoStatus /\ ~transport.recv_paused
  /\ Becomes(LET s == [Cur EXCEPT !.transport.state = "done"]
             IN IF handle.owner = "op"
                THEN ProcessEventsOp(s, result)
                ELSE ProcessEventsGen(s, result))
  /\ UNCHANGED svars

\* The event_base_once callback posted by ProcessEvents.
PostedResume ==
  /\ Dispatching
  /\ loop.resume_posted # "none"
  /\ Becomes(LET s == [Cur EXCEPT !.loop.resume_posted = "none"]
             IN IF loop.resume_posted = "coro"
                THEN ResumeAwaiter(s)
                ELSE [s EXCEPT !.trace.ub = TRUE])
  /\ UNCHANGED svars

\* CurlHttpBodyGenerator::OnChunkReady
OnChunkReady ==
  /\ Dispatching
  /\ gen.chunk_ready_active
  /\ Becomes(LET fire == gen.status_ # NoStatus /\ ~gen.body_ready_fired_
                 s == [Cur EXCEPT !.gen.chunk_ready_active = FALSE,
                                  !.gen.data_ = <<>>,
                                  !.gen.body_ready_fired_ = @ \/ fire]
             IN ReceivedData(IF fire THEN TriggerBodyReady(s) ELSE s,
                             gen.data_))
  /\ UNCHANGED svars

\* CurlHttpBodyGenerator::OnBodyReady
OnBodyReady ==
  /\ Dispatching
  /\ gen.body_ready_active
  /\ Becomes(LET s == [Cur EXCEPT !.gen.body_ready_active = FALSE]
             IN IF gen.exception_ptr_ # "none"
                THEN Close(s, "error")
                ELSE CloseStatus(s, gen.status_))
  /\ UNCHANGED svars

\* The downstream reader takes the buffered bytes.
ConsumerTake ==
  /\ Dispatching
  /\ gen.alive
  /\ stream.buffered # <<>>
  /\ Becomes([Cur EXCEPT !.stream.buffered = <<>>,
                         !.trace.unread_writes = Sign(Len(gen.data_)),
                         !.trace.unread_gen_writes = Sign(Len(gen.data_))])
  /\ UNCHANGED svars

\* curl_easy_pause(handle, CURLPAUSE_RECV_CONT); recv_cont_closed records a
\* call made for a stream that was already closed.
RecvCont(s) ==
  [s EXCEPT !.transport.recv_paused = FALSE,
            !.trace.recv_cont_closed = @ \/ (s.stream.closes > 0)]

\* CurlHttpBodyGenerator::Resume without the test of status_ and
\* exception_ptr_.
ResumeBody_no_live_test(s) == RecvCont(s)

\* The body of CurlHttpBodyGenerator::Resume.
ResumeBody(s) ==
  IF s.gen.status_ = NoStatus /\ s.gen.exception_ptr_ = "none"
  THEN RecvCont(s)
  ELSE s

\* CurlHttpBodyGenerator::Resume, called by the base class for the reader.
Resume ==
  /\ Dispatching
  /\ gen.alive
  /\ Becomes(ResumeBody(Cur))
  /\ UNCHANGED svars

\* The reader drops the Response: ~CurlHttpBodyGenerator, then ~CurlHandle.
DestroyBodyGenerator ==
  /\ Dispatching
  /\ gen.alive
  /\ Becomes(DestroyHandle([Cur EXCEPT !.gen.alive = FALSE,
                                       !.gen.chunk_ready_active = FALSE,
                                       !.gen.body_ready_active = FALSE]))
  /\ UNCHANGED svars

\* ReadCallbackOp returning the offset also when nothing was copied.
ReadCallbackOp_zero_offset(s, cap) ==
  IF s.handle.request_body_it_ = NullOpt \/
     s.handle.request_body_chunk_index_ = NullOpt
  THEN [s EXCEPT !.transport.send_paused = TRUE,
                 !.trace.last_read = "pause",
                 !.trace.read_paused = TRUE]
  ELSE IF s.handle.request_body_it_ = Len(s.handle.request_body_) + 1
  THEN [s EXCEPT !.trace.last_read = "eof"]
  ELSE LET current_chunk == s.handle.request_body_[s.handle.request_body_it_]
           index == s.handle.request_body_chunk_index_
           offset == Min(cap, Len(current_chunk) - index)
           done == index + offset = Len(current_chunk)
       IN [s EXCEPT
             !.trace.uploaded =
                @ \o SubSeq(current_chunk, index + 1, index + offset),
             !.handle.request_body_chunk_index_ =
                IF done THEN NullOpt ELSE index + offset,
             !.trace.uploaded_after_failure =
                @ \/ (offset > 0 /\ s.trace.producer_failed # "none"),
             !.handle.next_chunk_active = @ \/ done,
             !.trace.last_read = IF offset > 0 THEN "bytes" ELSE "eof"]

\* ReadCallbackOp triggering the event without clearing the index.
ReadCallbackOp_keep_index(s, cap) ==
  IF s.handle.request_body_it_ = NullOpt \/
     s.handle.request_body_chunk_index_ = NullOpt
  THEN [s EXCEPT !.transport.send_paused = TRUE,
                 !.trace.last_read = "pause",
                 !.trace.read_paused = TRUE]
  ELSE IF s.handle.request_body_it_ = Len(s.handle.request_body_) + 1
  THEN [s EXCEPT !.trace.last_read = "eof"]
  ELSE LET current_chunk == s.handle.request_body_[s.handle.request_body_it_]
           index == s.handle.request_body_chunk_index_
           offset == Min(cap, Len(current_chunk) - index)
           done == index + offset = Len(current_chunk)
       IN [s EXCEPT
             !.trace.uploaded =
                @ \o SubSeq(current_chunk, index + 1, index + offset),
             !.handle.request_body_chunk_index_ = index + offset,
             !.trace.uploaded_after_failure =
                @ \/ (offset > 0 /\ s.trace.producer_failed # "none"),
             !.handle.next_chunk_active = @ \/ done,
             !.transport.send_paused = (offset = 0),
             !.trace.last_read = IF offset > 0 THEN "bytes" ELSE "pause"]

\* The body of CurlHandle::ReadCallback with size * nitems = cap.  last_read
\* is what it returns: a byte count, 0 (end of the body) or
\* CURL_READFUNC_PAUSE.
ReadCallbackOp(s, cap) ==
  IF s.handle.request_body_it_ = NullOpt \/
     s.handle.request_body_chunk_index_ = NullOpt
  THEN [s EXCEPT !.transport.send_paused = TRUE,
                 !.trace.last_read = "pause",
                 !.trace.read_paused = TRUE]
  ELSE IF s.handle.request_body_it_ = Len(s.handle.request_body_) + 1
  THEN [s EXCEPT !.trace.last_read = "eof"]
  ELSE LET current_chunk == s.handle.request_body_[s.handle.request_body_it_]
           index == s.handle.request_body_chunk_index_
           offset == Min(cap, Len(current_chunk) - index)
           done == index + offset = Len(current_chunk)
       IN [s EXCEPT
             !.trace.uploaded =
                @ \o SubSeq(current_chunk, index + 1, index + offset),
             !.handle.request_body_chunk_index_ =
                IF done THEN NullOpt ELSE index + offset,
             !.trace.uploaded_after_failure =
                @ \/ (offset > 0 /\ s.trace.producer_failed # "none"),
             !.handle.next_chunk_active = @ \/ done,
             !.transport.send_paused = (offset = 0),
             !.trace.last_read = IF offset > 0 THEN "bytes" ELSE "pause"]

\* The transport asks for request-body bytes.  It does not ask while sending
\* is paused or after the callback returned 0.
ReadCallback(cap) ==
  /\ Running
  /\ handle.has_body
  /\ ~transport.send_paused
  /\ trace.last_read # "eof"
  /\ Becomes(ReadCallbackOp(Cur, cap))
  /\ UNCHANGED svars

\* CurlHandle::OnNextRequestBodyChunkRequested, the callback of
\* next_request_body_chunk_.
OnNextRequestBodyChunkRequested(how) ==
  /\ Dispatching
  /\ handle.alive
  /\ handle.next_chunk_active
  /\ Becomes(Advance([Cur EXCEPT !.handle.next_chunk_active = FALSE], how))
  /\ UNCHANGED svars

\* The request-body producer yields: the pending begin() or ++ completes.
ProducerReady ==
  /\ Dispatching
  /\ handle.alive
  /\ handle.advancing
  /\ Becomes(AdvanceDone(Cur))
  /\ UNCHANGED svars

\* The request-body producer throws: the catch block of the pump task.
ProducerThrow ==
  /\ Dispatching
  /\ handle.alive
  /\ handle.advancing
  /\ Becomes(ProducerFailed(Cur))
  /\ UNCHANGED svars

ClientInit ==
  /\ op = InitOp
  /\ handle = InitHandle
  /\ gen = InitGen
  /\ stream = InitStream
  /\ awaiter = InitAwaiter
  /\ loop = InitLoop
  /\ transport = InitTransport
  /\ stop = FALSE
  /\ trace = InitTrace

\* ------------------------------------------------------------------ server
ConnIds == 1..MaxConns
Uris == {"/quit", "/"}
Reactions == {"stay", "end", "throw"}
NoReactions == [i \in ConnIds |-> "stay"]

InitConn ==
  [pc |-> "free", stop |-> FALSE, stop_callback |-> FALSE, closecb |-> FALSE,
   reply_started |-> FALSE, reply |-> <<>>, chunks |-> 0,
   write_cb |-> "none", stop_callback_dl |-> FALSE, failed_early |-> FALSE]

InitServer ==
  [http_ |-> TRUE, quitting_ |-> FALSE, current_connections_ |-> 0,
   stop_requested |-> FALSE, quit_event_pending |-> FALSE,
   quit_pc |-> "none", quit_calls |-> 0, on_quit_calls |-> 0,
   listener_frees |-> 0, rejected |-> {}, connections_at_quit |-> 0,
   connections_at_resolve |-> 0, ub |-> FALSE, rescheduled |-> FALSE]

ServerInit ==
  /\ server = InitServer
  /\ conns = [i \in ConnIds |-> InitConn]

SCur == [server |-> server, conns |-> conns]

SBecomes(s) ==
  /\ server' = s.server
  /\ conns' = s.conns

InFlight(c) == c.pc \in {"handler", "body", "write"}

\* Finish scheduling quit_event_ without the current_connections_ == 0 test.
Finish_no_zero_test(s, i) ==
  LET n == s.server.current_connections_ - 1
  IN [s EXCEPT !.server.current_connections_ = n,
               !.server.quit_event_pending = @ \/ s.server.quitting_,
               !.conns[i].pc = "done",
               !.conns[i].stop_callback = FALSE,
               !.conns[i].stop_callback_dl = FALSE]

\* Lines 139-143 of OnHttpRequest: the end of a connection task.
Finish(s, i) ==
  LET n == s.server.current_connections_ - 1
  IN [s EXCEPT !.server.current_connections_ = n,
               !.server.quit_event_pending =
                  @ \/ (n = 0 /\ s.server.quitting_),
               !.conns[i].pc = "done",
               !.conns[i].stop_callback = FALSE,
               !.conns[i].stop_callback_dl = FALSE]

\* CatchHttpException with the reply_started test inverted.
CatchHttpException_inverted(s, i) ==
  IF s.conns[i].reply_started
  THEN Finish([s EXCEPT !.conns[i].closecb = FALSE,
                        !.conns[i].reply = Append(@, "500")], i)
  ELSE Finish(s, i)

\* The catch block of OnHttpRequest for an HttpException.
CatchHttpException(s, i) ==
  IF ~s.conns[i].reply_started
  THEN Finish([s EXCEPT !.conns[i].closecb = FALSE,
                        !.conns[i].reply = Append(@, "500")], i)
  ELSE Finish(s, i)

\* The deleter of `guard`: ResetOnCloseCallback, evhttp_send_reply_end.
ReplyEnd(s, i) ==
  [s EXCEPT !.conns[i].closecb = FALSE,
            !.conns[i].write_cb = "none",
            !.conns[i].reply = Append(@, "end")]

\* co_await on_request_(...) returned a response: headers, reply start.
\* headers_ok = FALSE: Check(evhttp_add_header(...)) throws.
HandlerReturned(s, i, headers_ok) ==
  IF headers_ok
  THEN [s EXCEPT !.conns[i].reply_started = TRUE,
                 !.conns[i].reply = Append(@, "start"),
                 !.conns[i].pc = "body"]
  ELSE CatchHttpException([s EXCEPT !.conns[i].failed_early = TRUE], i)

\* The end of one iteration of the FOR_CO_AWAIT body, after co_await
\* semaphore: stop_callback_dl and the semaphore go out of scope while
\* evhttp may still hold OnWriteReady with the semaphore's address.
AfterSemaphore(s, i) ==
  [s EXCEPT !.conns[i].stop_callback_dl = FALSE,
            !.conns[i].write_cb = IF @ = "live" THEN "dangling" ELSE @,
            !.conns[i].pc = "body"]

\* response.body yielded a chunk: one iteration of the FOR_CO_AWAIT body up to
\* co_await semaphore.
BodyYielded(s, i) ==
  LET w == [s EXCEPT !.conns[i].reply = Append(@, "chunk"),
                     !.conns[i].chunks = @ + 1,
                     !.conns[i].write_cb = "live"]
  IN IF s.server.stop_requested
     THEN AfterSemaphore(w, i)
     ELSE [w EXCEPT !.conns[i].stop_callback_dl = TRUE,
                    !.conns[i].pc = "write"]

BodyEnded(s, i) == Finish(ReplyEnd(s, i), i)

\* BodyThrew leaving the task from the catch block, before line 139.
BodyThrew_early_return(s, i) ==
  [ReplyEnd(s, i) EXCEPT !.conns[i].pc = "done",
                         !.conns[i].stop_callback = FALSE,
                         !.conns[i].stop_callback_dl = FALSE]

\* The body sequence throws: `guard` is destroyed by the unwinding, then the
\* catch block runs.
BodyThrew(s, i) ==
  CatchHttpException(ReplyEnd(s, i), i)

\* on_request_ throws an HttpException.
HandlerThrew(s, i) ==
  CatchHttpException([s EXCEPT !.conns[i].failed_early = TRUE], i)

\* What the user's handler or body sequence does, in the frame of the stop
\* request, when the stop token passed to it reports stop.
React(s, i, r) ==
  CASE r = "stay" -> s
    [] s.conns[i].pc = "handler" /\ r = "end" -> HandlerReturned(s, i, TRUE)
    [] s.conns[i].pc = "handler" /\ r = "throw" -> HandlerThrew(s, i)
    [] s.conns[i].pc = "body" /\ r = "end" -> BodyEnded(s, i)
    [] s.conns[i].pc = "body" /\ r = "throw" -> BodyThrew(s, i)
    [] OTHER -> s

\* StopConnection with a stop callback that leaves the connection's stop
\* source alone.
StopConnection_no_stop(s, i, r) ==
  IF ~s.conns[i].stop_callback
  THEN s
  ELSE LET u == IF s.conns[i].pc = "write" /\ s.conns[i].stop_callback_dl
                THEN AfterSemaphore(s, i)
                ELSE s
       IN React(u, i, r)

\* The stop callbacks of connection i run by stop_source_.request_stop().
StopConnection(s, i, r) ==
  IF ~s.conns[i].stop_callback
  THEN s
  ELSE LET t == [s EXCEPT !.conns[i].stop = TRUE]
           u == IF t.conns[i].pc = "write" /\ t.conns[i].stop_callback_dl
                THEN AfterSemaphore(t, i)
                ELSE t
       IN React(u, i, r)

RECURSIVE StopConnections(_, _, _)
StopConnections(s, n, reactions) ==
  IF n = 0
  THEN s
  ELSE StopConnection(StopConnections(s, n - 1, reactions), n, reactions[n])

\* Quit without the quitting_ test.
Quit_no_guard(s, reactions) ==
  LET q == [s EXCEPT !.server.quit_calls = Min(@ + 1, 2)]
      a == [q EXCEPT !.server.quitting_ = TRUE,
                     !.server.stop_requested = TRUE,
                     !.server.connections_at_quit =
                        s.server.current_connections_]
      b == StopConnections(a, MaxConns, reactions)
  IN [b EXCEPT !.server.quit_event_pending =
                  @ \/ (b.server.current_connections_ = 0),
               !.server.rescheduled =
                  @ \/ (b.server.quit_event_pending /\
                        b.server.current_connections_ = 0),
               !.server.quit_pc = "waiting"]

\* Quit without its own event_add of quit_event_.
Quit_no_event_add(s, reactions) ==
  LET q == [s EXCEPT !.server.quit_calls = Min(@ + 1, 2)]
  IN IF s.server.quitting_
     THEN q
     ELSE LET a == [q EXCEPT !.server.quitting_ = TRUE,
                             !.server.stop_requested = TRUE,
                             !.server.connections_at_quit =
                                s.server.current_connections_]
              b == StopConnections(a, MaxConns, reactions)
          IN [b EXCEPT !.server.quit_pc = "waiting"]

\* HttpServer::Quit up to co_await quit_semaphore_.  rescheduled: event_add
\* finds quit_event_ already pending, added by a task that finished inside
\* request_stop().
Quit(s, reactions) ==
  LET q == [s EXCEPT !.server.quit_calls = Min(@ + 1, 2)]
  IN IF s.server.quitting_
     THEN q
     ELSE LET a == [q EXCEPT !.server.quitting_ = TRUE,
                             !.server.stop_requested = TRUE,
                             !.server.connections_at_quit =
                                s.server.current_connections_]
              b == StopConnections(a, MaxConns, reactions)
          IN [b EXCEPT !.server.quit_event_pending =
                          @ \/ (b.server.current_connections_ = 0),
                       !.server.rescheduled =
                          @ \/ (b.server.quit_event_pending /\
                                b.server.current_connections_ = 0),
                       !.server.quit_pc = "waiting"]

\* The program calls Quit().
CallQuit(reactions) ==
  /\ server.quit_calls < 2
  /\ server.quitting_ => reactions = NoReactions
  /\ SBecomes(Quit(SCur, reactions))
  /\ UNCHANGED cvars

\* evhttp_send_reply(ev_request, 500, ...) of a request that finds quitting_.
Reject(s, uri) == [s EXCEPT !.server.rejected = @ \cup {uri}]

FirstFree(s) ==
  CHOOSE i \in ConnIds :
    /\ s.conns[i].pc = "free"
    /\ \A j \in 1..(i - 1) : s.conns[j].pc # "free"

\* Lines 88-105: the per-connection stop source, its registrations, and the
\* call of the handler.
Accept(s, i) ==
  [s EXCEPT !.conns[i] = [InitConn EXCEPT !.pc = "handler",
                                          !.stop_callback = TRUE,
                                          !.closecb = TRUE],
            !.server.current_connections_ = @ + 1]

\* OnHttpRequestTask with the "/quit" test made before the quitting_ test.
OnHttpRequestTask_quit_first(s, uri, reactions) ==
  IF uri = "/quit"
  THEN Quit(s, reactions)
  ELSE IF s.server.quitting_
  THEN Reject(s, uri)
  ELSE Accept(s, FirstFree(s))

\* The coroutine OnHttpRequest(evhttp_request*) up to its first suspension.
OnHttpRequestTask(s, uri, reactions) ==
  IF s.server.quitting_
  THEN Reject(s, uri)
  ELSE IF uri = "/quit"
  THEN Quit(s, reactions)
  ELSE Accept(s, FirstFree(s))

\* The evhttp callback OnHttpRequest(evhttp_request*, void*): a request
\* arrives while the listener exists.
OnHttpRequest(uri, reactions) ==
  /\ server.http_
  /\ server.quitting_ => uri \notin server.rejected
  /\ (~server.quitting_ /\ uri # "/quit") =>
       \E i \in ConnIds : conns[i].pc = "free"
  /\ (server.quitting_ \/ uri # "/quit") => reactions = NoReactions
  /\ SBecomes(OnHttpRequestTask(SCur, uri, reactions))
  /\ UNCHANGED cvars

HandlerReturns(i, headers_ok) ==
  /\ conns[i].pc = "handler"
  /\ SBecomes(HandlerReturned(SCur, i, headers_ok))
  /\ UNCHANGED cvars

HandlerThrows(i) ==
  /\ conns[i].pc = "handler"
  /\ SBecomes(HandlerThrew(SCur, i))
  /\ UNCHANGED cvars

BodyYields(i) ==
  /\ conns[i].pc = "body"
  /\ conns[i].chunks < MaxChunks
  /\ SBecomes(BodyYielded(SCur, i))
  /\ UNCHANGED cvars

BodyEnds(i) ==
  /\ conns[i].pc = "body"
  /\ SBecomes(BodyEnded(SCur, i))
  /\ UNCHANGED cvars

BodyThrows(i) ==
  /\ conns[i].pc = "body"
  /\ SBecomes(BodyThrew(SCur, i))
  /\ UNCHANGED cvars

\* HttpServer::OnWriteReady for the chunk last written on connection i.
OnWriteReady(i) ==
  /\ conns[i].write_cb # "none"
  /\ SBecomes(LET s == [SCur EXCEPT !.conns[i].write_cb = "none"]
              IN IF conns[i].write_cb = "live"
                 THEN AfterSemaphore(s, i)
                 ELSE [s EXCEPT !.server.ub = TRUE])
  /\ UNCHANGED cvars

\* HttpServer::OnConnectionClose: the peer closed connection i.
OnConnectionClose(i, r) ==
  /\ conns[i].closecb
  /\ ~conns[i].stop
  /\ SBecomes(React([SCur EXCEPT !.conns[i].stop = TRUE], i, r))
  /\ UNCHANGED cvars

\* HttpServer::OnQuit, the callback of quit_event_.
OnQuit ==
  /\ server.quit_event_pending
  /\ SBecomes(
       LET s == [SCur EXCEPT !.server.quit_event_pending = FALSE,
                             !.server.http_ = FALSE,
                             !.server.listener_frees = Min(@ + 1, 2)]
       IN IF server.quit_pc = "waiting"
          THEN [s EXCEPT !.server.quit_pc = "resolved",
                         !.server.on_quit_calls = Min(@ + 1, 2),
                         !.server.connections_at_resolve =
                            server.current_connections_]
          ELSE s)
  /\ UNCHANGED cvars

Init ==
  /\ ClientInit
  /\ ServerInit

ServerNext ==
  \/ \E rs \in [ConnIds -> Reactions] : CallQuit(rs)
  \/ \E u \in Uris, rs \in [ConnIds -> Reactions] :
       OnHttpRequest(u, rs)
  \/ \E i \in ConnIds, ok \in BOOLEAN : HandlerReturns(i, ok)
  \/ \E i \in ConnIds : HandlerThrows(i)
  \/ \E i \in ConnIds : BodyYields(i)
  \/ \E i \in ConnIds : BodyEnds(i)
  \/ \E i \in ConnIds : BodyThrows(i)
  \/ \E i \in ConnIds : OnWriteReady(i)
  \/ \E i \in ConnIds, r \in Reactions : OnConnectionClose(i, r)
  \/ OnQuit

ServerSpec == Init /\ [][ServerNext]_vars

\* The event loop runs the callback of the pending zero-delay quit_event_.
ServerFairSpec == ServerSpec /\ WF_vars(OnQuit)

Hows == {"sync_ok", "sync_throw", "async"}

Next ==
  \/ \E r \in PlainRequests, f \in Hows : Fetch(r, f)
  \/ Await
  \/ RequestStop
  \/ \E c \in StatusCodes : HeaderCallback(StatusLine(c))
  \/ \E n \in 0..MaxWrite : WriteCallback(n)
  \/ OnHeadersReady
  \/ \E r \in {CURLE_OK, CURLE_ERR} : ProcessEvents(r)
  \/ PostedResume
  \/ OnChunkReady
  \/ OnBodyReady
  \/ ConsumerTake
  \/ Resume
  \/ DestroyBodyGenerator
  \/ \E n \in 1..MaxRead : ReadCallback(n)
  \/ \E h \in Hows : OnNextRequestBodyChunkRequested(h)
  \/ ProducerReady
  \/ ProducerThrow

Spec == Init /\ [][Next]_vars

\* The event loop runs the callback of an active user event: chunk_ready_
\* and body_ready_ of a living generator are dispatched.
FairSpec == Spec /\ WF_vars(OnChunkReady) /\ WF_vars(OnBodyReady)

\* The upload side of one Fetch: the constructor's configuration and the
\* request-body pump, for every request.
UploadNext ==
  \/ \E r \in Requests, f \in Hows : Fetch(r, f)
  \/ Await
  \/ RequestStop
  \/ \E n \in 1..MaxRead : ReadCallback(n)
  \/ \E h \in Hows : OnNextRequestBodyChunkRequested(h)
  \/ ProducerReady
  \/ ProducerThrow

UploadSpec == Init /\ [][UploadNext]_vars

\* The caller awaits the operation, the transport asks for request bytes
\* while sending is not paused, the event loop runs the callback of the
\* triggered next_request_body_chunk_ event, and a producer that was asked
\* for its next chunk answers.
UploadFairSpec ==
  /\ UploadSpec
  /\ WF_vars(Await)
  /\ WF_vars(\E n \in 1..MaxRead : ReadCallback(n))
  /\ WF_vars(\E h \in Hows : OnNextRequestBodyChunkRequested(h))
  /\ WF_vars(ProducerReady \/ ProducerThrow)

\* A response head with header lines.
StatusColon ==
  <<"H", "T", "T", "P", "/", "2", " ", "4", "0", "4", " ", "N", "o", ":",
    " ", "x", "CR", "LF">>
HeaderETag ==
  <<"E", "T", "a", "g", ":", " ", "v", "1", " ", "CR", "LF">>
HeaderAge == <<"a", "g", "e", ":", "7", "CR", "LF">>
Blank == <<"CR", "LF">>

Lines ==
  {StatusLine(c) : c \in StatusCodes} \cup
  {StatusColon, HeaderETag, HeaderAge, Blank}

HeaderNext ==
  \/ \E r \in PlainRequests, f \in Hows : Fetch(r, f)
  \/ Await
  \/ \E l \in Lines : HeaderCallback(l)
  \/ \E n \in 0..MaxWrite : WriteCallback(n)
  \/ OnHeadersReady

HeaderSpec == Init /\ [][HeaderNext]_vars
\* ------------------------------------------------------------- properties

\* C1: the awaiter of the pending operation is resumed at most once and, once
\* it has run, has observed exactly one outcome, a Response or an error; a
\* recorded terminal event never leaves the awaiter suspended
\* without a resumption on its way.
C1_ExactlyOneOutcome ==
  /\ awaiter.resumes <= 1
  /\ (awaiter.pc = "done") = (awaiter.observed # "none")
  /\ awaiter.observed = "response" => handle.owner = "gen"
  /\ awaiter.observed \notin {"none", "response"} => ~gen.alive
  /\ (trace.first_recorded # "none" /\ awaiter.pc = "suspended") =>
       loop.resume_posted = "coro"
  /\ ~trace.ub

\* Both a completion and a cancellation were recorded for the operation and
\* the awaiter ran once.
C1_Witness ==
  /\ awaiter.pc = "done"
  /\ awaiter.resumes = 1
  /\ trace.first_recorded \in {"success", "transport"}
  /\ trace.handle_exception_ran

\* C2: once the stop token was stop-requested while the operation was pending,
\* the outcome the awaiter observes is the interrupted error.
C2_StopObservedAsInterrupted ==
  (awaiter.pc = "done" /\ trace.stop_while_pending) =>
    awaiter.observed = "interrupted"

\* C3: after HandleException has run for a Handle, the Handle is not
\* registered with the multiplexer for as long as it exists.
C3_UnregisteredAfterHandleException ==
  (trace.handle_exception_ran /\ handle.alive) => ~handle.registered

\* C4: when ProcessEvents recorded a successful completion first, the awaiter
\* observes the Response, also if the stop token fires before it is resumed.
C4_FirstRecordedWins ==
  (awaiter.pc = "done" /\ trace.first_recorded = "success") =>
    awaiter.observed = "response"

\* C5: the bytes passed to ReceivedData, followed by the chunk waiting in
\* data_ (or, before the owner transition, the bytes waiting in body_), are
\* exactly the bytes the write callback accepted, in wire order.
C5_BytesInOrder ==
  /\ trace.accepted = Wire(0, transport.sent)
  /\ IF handle.owner = "op"
     THEN trace.received = <<>> /\ (op.alive => op.body_ = trace.accepted)
     ELSE trace.received \o gen.data_ = trace.accepted

\* The initial bytes were read and a later chunk was drained by chunk_ready.
C5_Witness ==
  /\ gen.alive
  /\ Len(trace.received) = MaxBytes
  /\ Len(stream.buffered) < MaxBytes
  /\ stream.buffered # <<>>

\* C6: no chunk is passed to ReceivedData after the stream was closed.
C6_NoChunkAfterClose == ~trace.received_after_close

\* C7: a body stream receives at most one terminal Close call.
C7_AtMostOneClose == stream.closes <= 1

\* C8 as stated: at no time, the header phase included, are the bytes of more
\* than one accepted (non-empty) write waiting to be read.
C8_OneWriteBufferedAlways == trace.unread_writes <= 1

\* C8 amended: while the body stream owns the handle and holds unread bytes
\* (in data_ or in its buffer) the write callback accepts nothing, so data_
\* and the buffer are never both filled and the unread bytes accepted after
\* the owner transition are those of at most one write.
C8_BackPressure ==
  /\ [][(handle.owner = "gen" /\
          (gen.data_ # <<>> \/ Len(stream.buffered) > 0)) =>
         trace.accepted' = trace.accepted]_vars
  /\ [](handle.owner = "gen" =>
          /\ gen.data_ = <<>> \/ stream.buffered = <<>>
          /\ trace.unread_gen_writes <= 1)

\* A write was refused with the pause sentinel while the reader held bytes.
C8_Witness ==
  /\ handle.owner = "gen"
  /\ transport.recv_paused
  /\ stream.buffered # <<>>
  /\ trace.unread_gen_writes = 1

\* C9: the awaiter is never resumed in the callback frame that recorded its
\* outcome.
C9_DeferredResume == ~trace.sync_resume

\* C10: the first Quit resolves only with current_connections_ = 0 and no
\* connection task in flight, and quit_event_ is only pending when quitting_
\* is set and current_connections_ = 0.
C10_QuitResolvesAtZero ==
  /\ server.quit_pc = "resolved" =>
       /\ server.current_connections_ = 0
       /\ server.connections_at_resolve = 0
       /\ \A i \in ConnIds : ~InFlight(conns[i])
  /\ server.quit_event_pending =>
       server.quitting_ /\ server.current_connections_ = 0

\* Quit began with connections in flight and has resolved.
C10_Witness ==
  /\ server.quit_pc = "resolved"
  /\ server.connections_at_quit = MaxConns

\* C11: a Quit call made when quitting_ is already set returns at once and has
\* no effect: it does not wait on the quit semaphore, requests no stop,
\* schedules no quit_event_, runs no OnQuit hook and leaves quitting_,
\* current_connections_, the listener and every connection unchanged.
C11_LateQuitIsNoOp ==
  [][(server.quitting_ /\ server.quit_calls' # server.quit_calls) =>
       /\ server' = [server EXCEPT !.quit_calls = server.quit_calls + 1]
       /\ conns' = conns]_vars

\* Quit was called a second time while the first call still waits for a
\* connection in flight.
C11_Witness ==
  /\ server.quit_calls = 2
  /\ server.quit_pc = "waiting"
  /\ server.current_connections_ > 0
  /\ ~server.quit_event_pending

\* C12: a request that arrives once quitting_ is set, a "/quit" request
\* included, is answered 500 and nothing else happens: no handler is called,
\* no per-connection stop source is registered, Quit is not called and
\* current_connections_ is unchanged.
C12_RejectedWhileQuitting ==
  [][\A u \in Uris :
       (server.quitting_ /\ \E rs \in [ConnIds -> Reactions] :
                               OnHttpRequest(u, rs)) =>
         /\ server' = [server EXCEPT !.rejected = @ \cup {u}]
         /\ u \in server'.rejected
         /\ conns' = conns]_vars

\* A "/quit" request and another request were answered 500 while a
\* connection was still in flight.
C12_Witness ==
  /\ server.rejected = Uris
  /\ server.current_connections_ > 0

\* C13: the server-wide stop request sets the stop source of every connection
\* in flight; a connection's stop source is set only by that or by the peer
\* closing the connection, and the peer closing it always sets it.
C13_StopPropagation ==
  /\ [][\A i \in ConnIds :
          (~server.stop_requested /\ server.stop_requested' /\
             InFlight(conns[i])) => conns'[i].stop]_vars
  /\ [][\A i \in ConnIds :
          (~conns[i].stop /\ conns'[i].stop) =>
             \/ ~server.stop_requested /\ server.stop_requested'
             \/ \E r \in Reactions : OnConnectionClose(i, r)]_vars
  /\ [][\A i \in ConnIds :
          (\E r \in Reactions : OnConnectionClose(i, r)) =>
             conns'[i].stop]_vars
  /\ [](\A i \in ConnIds :
          (server.stop_requested /\ InFlight(conns[i])) => conns[i].stop)

\* One connection was stopped by the peer closing it; then Quit stopped
\* another that is still in flight.
C13_Witness ==
  \E i, j \in ConnIds :
    /\ conns[i].stop
    /\ conns[i].pc = "done"
    /\ conns[i].reply = <<"500">>
    /\ InFlight(conns[j])
    /\ conns[j].stop
    /\ server.stop_requested
    /\ server.connections_at_quit = 1

\* C14: a connection that is cancelled while it is suspended on the
\* write-complete signal of a chunk is woken in the frame of the cancellation,
\* whether the server-wide stop or the peer closing the connection cancels it.
C14_CancelWakesWriter ==
  [][\A i \in ConnIds :
       (conns[i].pc = "write" /\ ~conns[i].stop /\ conns'[i].stop) =>
          conns'[i].pc # "write"]_vars

\* C15: a connection whose handler or header assembly failed before the reply
\* was started got exactly one reply, the 500, with no reply-start, chunk or
\* reply-end; its close callback is detached, its task has ended, and the
\* listener is still there unless the server is quitting.
C15_FailureBeforeReplyStart ==
  \A i \in ConnIds :
    conns[i].failed_early =>
      /\ conns[i].reply = <<"500">>
      /\ ~conns[i].closecb
      /\ conns[i].pc = "done"
      /\ ~conns[i].reply_started
      /\ ~server.quitting_ => server.http_

\* A handler failed and a request that arrived later is being served.
C15_Witness ==
  /\ conns[1].failed_early
  /\ conns[2].pc = "write"
  /\ ~server.quitting_

\* C16: the step in which the body sequence of a started reply fails adds
\* nothing to the reply: no chunk and no reply-end.
C16_NoReplyEndAfterFailure ==
  [][\A i \in ConnIds : BodyThrows(i) => conns'[i].reply = conns[i].reply]_vars

\* C17: the bytes the read callback copied, in call order, are the producer's
\* chunks concatenated up to the position of the pump - the chunks before the
\* iterator and the part of the current chunk before the index - with no byte
\* skipped or repeated, empty chunks included; the callback returns 0 only
\* when the iterator is at the end, and then the whole body was copied.
C17_UploadInOrder ==
  LET body == handle.request_body_
      it == handle.request_body_it_
      index == handle.request_body_chunk_index_
  IN /\ it = NullOpt => trace.uploaded = <<>>
     /\ (it # NullOpt /\ index = NullOpt) =>
          trace.uploaded = Flatten(SubSeq(body, 1, it))
     /\ (it # NullOpt /\ index # NullOpt) =>
          trace.uploaded =
            Flatten(SubSeq(body, 1, it - 1)) \o
            (IF it <= Len(body) THEN SubSeq(body[it], 1, index) ELSE <<>>)
     /\ trace.last_read = "eof" =>
          it = Len(body) + 1 /\ trace.uploaded = Flatten(body)

\* A body of the largest number of chunks, with an empty chunk and a chunk of
\* the largest size, was uploaded to its end.
C17_Witness ==
  /\ trace.last_read = "eof"
  /\ Len(handle.request_body_) = MaxBodyChunks
  /\ \E k \in DOMAIN handle.request_body_ : handle.request_body_[k] = <<>>
  /\ \E k \in DOMAIN handle.request_body_ :
       Len(handle.request_body_[k]) = MaxChunkSize
  /\ trace.uploaded = Flatten(handle.request_body_)

\* C18: once the producer of the request body has thrown, the Handle is not
\* registered with the multiplexer, the error is recorded on the owner of that
\* moment, no further byte is uploaded, and the awaiter (or the reader of the
\* body stream) observes the producer's error.
C18_ProducerErrorRouted ==
  trace.producer_failed # "none" =>
    /\ handle.alive => ~handle.registered
    /\ ~trace.uploaded_after_failure
    /\ trace.producer_failed = "op" =>
         /\ op.alive => op.exception_ptr_ = "producer"
         /\ awaiter.pc = "done" => awaiter.observed = "producer"
    /\ trace.producer_failed = "gen" =>
         /\ gen.alive => gen.exception_ptr_ = "producer"
         /\ stream.closed_with = "error"

\* C19: a request with a body selects post-mode if its method is POST and
\* upload-mode otherwise, and the value of its (last) content-length header,
\* whatever the case of the name, is the size set for that mode; a request
\* without a body selects no mode and sets no size.
C19_UploadConfiguration ==
  awaiter.pc # "idle" =>
    LET request == trace.request
        matches == {k \in DOMAIN request.headers :
                      EqualsIgnoreCase(request.headers[k].name,
                                       content_length)}
        size == IF matches = {}
                THEN NullOpt
                ELSE stoll(request.headers[
                       CHOOSE k \in matches : \A j \in matches : j <= k].value)
        post == request.has_body /\ request.method = "POST"
        upload == request.has_body /\ request.method # "POST"
    IN /\ transport.post = post
       /\ transport.upload = upload
       /\ transport.postfieldsize = (IF post THEN size ELSE NullOpt)
       /\ transport.infilesize = (IF upload THEN size ELSE NullOpt)

\* A POST with a body and a CONTENT-LENGTH header, and the size it set.
C19_Witness ==
  /\ awaiter.pc # "idle"
  /\ trace.request.has_body
  /\ trace.request.method = "POST"
  /\ trace.request.headers =
       <<[name |-> CONTENT_LENGTH, value |-> <<"5">>]>>
  /\ transport.post
  /\ transport.postfieldsize = 5

\* C20: while the operation owns the handle, its status is the code of the
\* most recent line that began with HTTP and its header list holds the header
\* lines received after that line, in order, names lowercased and values
\* trimmed.
C20_HeaderCollection ==
  (op.alive /\ handle.owner = "op") =>
    /\ op.status_ = trace.want_status
    /\ op.headers_ = trace.want_headers
\* C21: for a handle owned by a body stream, body_ready is triggered at most
\* once and never before the completion was recorded; ProcessEvents triggers
\* it at once exactly when no chunk_ready dispatch is pending, and otherwise
\* the pending chunk_ready dispatch is the one that triggers it; after the
\* completion the stream is eventually closed, unless the reader dropped it.
C21_Completed == gen.status_ # NoStatus

C21_Triggered == trace.body_ready_triggers > 0

C21_TriggerOnItsWay ==
  (gen.alive /\ C21_Completed) =>
     \/ C21_Triggered /\ gen.body_ready_fired_
     \/ ~C21_Triggered /\ gen.chunk_ready_active

C21_TriggerStep ==
  /\ trace.body_ready_triggers' # trace.body_ready_triggers =>
        /\ trace.body_ready_triggers = 0
        /\ gen.status_' # NoStatus
  /\ (~C21_Completed /\ gen.status_' # NoStatus) =>
        (trace.body_ready_triggers' = 1 <=> ~gen.chunk_ready_active)
  /\ (C21_Completed /\ gen.chunk_ready_active /\ ~gen.chunk_ready_active'
      /\ gen.alive') =>
        trace.body_ready_triggers' = 1

C21_BodyReadyOnce ==
  /\ [](trace.body_ready_triggers <= 1 /\ C21_TriggerOnItsWay)
  /\ [][C21_TriggerStep]_vars
  /\ (C21_Completed ~> (stream.closes > 0 \/ ~gen.alive))

\* A completion found chunk_ready pending, that dispatch triggered
\* body_ready, and OnBodyReady closed the stream.
C21_Witness ==
  /\ C21_Completed
  /\ gen.alive
  /\ trace.body_ready_triggers = 1
  /\ stream.closes = 1
  /\ ~trace.handle_exception_ran
  /\ Len(trace.received) = MaxBytes

\* C22: a body stream that is closed with a status is closed with the HTTP
\* status code of the response, the one the Response carries, whether the
\* completion was processed while the operation owned the handle or after the
\* body stream took it over.
C22_ClosedWithResponseStatus ==
  stream.closed_with = "status" => stream.closed_status = awaiter.status

\* The completion was processed while the operation owned the handle: there
\* the stream is closed with the status of the Response.
C22_NoBodyPath ==
  (stream.closed_with = "status" /\ op.no_body_) =>
     stream.closed_status = awaiter.status

\* C23: while the upload has met no error and no cancellation, a paused send
\* always has its resume on the way (an advance of the producer is in flight
\* or the next-chunk event is triggered), the advance that completes asks the
\* transport to resume sending, and so every pause is followed by a resume
\* and the upload reaches the end of the body.
C23_Healthy ==
  /\ handle.alive
  /\ handle.has_body
  /\ trace.producer_failed = "none"
  /\ ~trace.handle_exception_ran

C23_Interrupted ==
  trace.producer_failed # "none" \/ trace.handle_exception_ran

C23_ResumeOnItsWay ==
  (C23_Healthy /\ transport.send_paused) =>
     handle.advancing \/ handle.next_chunk_active

C23_AdvanceResumes ==
  (C23_Healthy /\ handle.advancing /\ ~handle.advancing' /\ C23_Healthy') =>
     /\ ~transport.send_paused'
     /\ handle.request_body_chunk_index_' = 0

C23_PumpLiveness ==
  /\ []C23_ResumeOnItsWay
  /\ [][C23_AdvanceResumes]_vars
  /\ ((C23_Healthy /\ transport.send_paused) ~>
        (~transport.send_paused \/ C23_Interrupted))
  /\ (C23_Healthy ~> (trace.last_read = "eof" \/ C23_Interrupted))

\* A read was answered with the pause sentinel, the producer yielded, and
\* the whole body of two chunks went out up to the end of the body.
C23_Witness ==
  /\ C23_Healthy
  /\ trace.read_paused
  /\ trace.last_read = "eof"
  /\ Len(trace.request.body) = MaxBodyChunks
  /\ trace.uploaded = Flatten(trace.request.body)

\* C24: current_connections_ is never negative and equals the number of
\* connection tasks that have called the handler and have not finished, so
\* every task that incremented it decrements it once on whichever path it
\* leaves; a rejected request changes nothing, and a "/quit" request is not
\* counted itself (the counter can only fall by the tasks its stop request
\* finishes).
C24_InFlightCount == Cardinality({i \in ConnIds : InFlight(conns[i])})

C24_CounterIsInFlight ==
  /\ server.current_connections_ >= 0
  /\ server.current_connections_ = C24_InFlightCount

C24_CounterStep ==
  /\ server.rejected' # server.rejected =>
        /\ server.current_connections_' = server.current_connections_
        /\ conns' = conns
  /\ server.quit_calls' # server.quit_calls =>
        /\ server.current_connections_' <= server.current_connections_
        /\ \A i \in ConnIds : conns[i].pc = "free" => conns'[i].pc = "free"
  /\ \A i \in ConnIds :
        (InFlight(conns[i]) /\ ~InFlight(conns'[i])) => conns'[i].pc = "done"

C24_ConnectionCount ==
  []C24_CounterIsInFlight /\ [][C24_CounterStep]_vars

\* One task left through the catch block, one through the end of its body,
\* a third request was rejected after Quit, and the counter is back at zero.
C24_Witness ==
  /\ server.current_connections_ = 0
  /\ \E i \in ConnIds : conns[i].pc = "done" /\ conns[i].failed_early
  /\ \E i \in ConnIds :
        conns[i].pc = "done" /\ conns[i].reply = <<"start", "chunk", "end">>
  /\ server.rejected # {}

\* C25: the handler of quit_event_ runs at most once, so the listener is
\* freed at most once and quit_semaphore_ is resumed at most once; once
\* shutdown has begun and no connection task is in flight, the first Quit
\* eventually resolves, with the listener freed exactly once; this also holds
\* when the tasks finish inside the stop request, so that the last task and
\* Quit both add quit_event_.
C25_AtMostOnce ==
  /\ server.listener_frees <= 1
  /\ server.on_quit_calls <= 1
  /\ server.quit_pc = "resolved" =>
        /\ server.listener_frees = 1
        /\ server.on_quit_calls = 1
        /\ ~server.http_
        /\ ~server.quit_event_pending
  /\ server.listener_frees = 1 => server.quit_pc = "resolved"

C25_QuitEventRunsOnce ==
  /\ []C25_AtMostOnce
  /\ ((server.quitting_ /\ server.current_connections_ = 0) ~>
        (server.quit_pc = "resolved"))

\* Every connection finished inside the stop request of Quit, Quit added the
\* already pending quit_event_ again, and Quit resolved.
C25_Witness ==
  /\ server.rescheduled
  /\ server.connections_at_quit = MaxConns
  /\ server.quit_pc = "resolved"
  /\ server.listener_frees = 1

\* C26: a write-complete callback runs only for the chunk whose iteration is
\* still suspended on its signal: OnWriteReady never runs for a semaphore that
\* the stop callback resumed early, nor for a chunk whose loop iteration has
\* ended.
C26_WriteSignalledWhileSuspended ==
  [][\A i \in ConnIds :
       OnWriteReady(i) => conns[i].pc = "write" /\ conns[i].write_cb = "live"]_vars

\* C27: at most one advance of the request-body iterator is in flight: the
\* next-chunk event is triggered only by a read that has just exhausted the
\* current chunk, the event is never pending while an advance is in flight
\* (and only its callback starts an advance), and from the trigger until the
\* advance has stored the iterator and reset the index every read callback
\* returns the pause sentinel and leaves iterator, index and event alone.
C27_AdvanceWindow == handle.advancing \/ handle.next_chunk_active

C27_OneAdvance ==
  /\ ~(handle.advancing /\ handle.next_chunk_active)
  /\ (handle.alive /\ C27_AdvanceWindow) =>
        handle.request_body_chunk_index_ = NullOpt

C27_WindowStep ==
  /\ (~handle.next_chunk_active /\ handle.next_chunk_active') =>
        /\ handle.request_body_it_ \in 1..Len(handle.request_body_)
        /\ handle.request_body_chunk_index_ # NullOpt
        /\ handle.request_body_chunk_index_ +
             (Len(trace.uploaded') - Len(trace.uploaded)) =
               Len(handle.request_body_[handle.request_body_it_])
        /\ handle.request_body_chunk_index_' = NullOpt
        /\ ~handle.advancing
  /\ (~handle.advancing /\ handle.advancing') =>
        handle.next_chunk_active \/ handle.request_body_it_ = NullOpt
  /\ \A n \in 1..MaxRead :
        (C27_AdvanceWindow /\ ReadCallback(n)) =>
           /\ trace.last_read' = "pause"
           /\ handle' = handle
           /\ trace.uploaded' = trace.uploaded

C27_SingleAdvanceInFlight ==
  []C27_OneAdvance /\ [][C27_WindowStep]_vars

\* A read exhausted a chunk and triggered the event, its callback started an
\* advance that is still in flight, and a read in between was answered with
\* the pause sentinel.
C27_Witness ==
  /\ handle.alive
  /\ handle.advancing
  /\ handle.request_body_it_ # NullOpt
  /\ trace.uploaded # <<>>
  /\ trace.last_read = "pause"
  /\ transport.send_paused
  /\ trace.producer_failed = "none"

\* C28 as stated: Resume() makes no transport call once a terminal status or
\* an error has been recorded on the stream.
C28_NoResumeAfterTerminal == ~trace.recv_cont_closed

\* C28: Resume() asks the transport to resume receiving only while the
\* generator has recorded neither a transfer result nor an error: it makes no
\* call after a completion, a transport error, a cancellation or a producer
\* error that reached the generator; while that holds, a download paused by
\* back-pressure is un-paused by the next Resume().  A stream closed by
\* await_resume on the no-body path is the one closed stream for which
\* Resume() still makes the call.
C28_GenTerminal == gen.status_ # NoStatus \/ gen.exception_ptr_ # "none"

C28_ResumeStep ==
  /\ (Resume /\ C28_GenTerminal) => UNCHANGED vars
  /\ (Resume /\ ~C28_GenTerminal) => ~transport.recv_paused'
  /\ (gen.alive /\ gen.alive' /\ transport.recv_paused
      /\ ~transport.recv_paused') => ~C28_GenTerminal
  /\ (~trace.recv_cont_closed /\ trace.recv_cont_closed') =>
        /\ op.no_body_
        /\ stream.closed_with = "status"
        /\ ~C28_GenTerminal

C28_ResumeWhileLive ==
  /\ [](stream.closes > 0 => (C28_GenTerminal \/ op.no_body_))
  /\ [][C28_ResumeStep]_vars

\* Resume() made the transport call for a stream that await_resume had
\* closed with the status.
C28_Witness ==
  /\ trace.recv_cont_closed
  /\ stream.closed_with = "status"
  /\ gen.alive

\* The write callback paused the download for back-pressure and Resume()
\* is about to un-pause it.
C28_PausedLive ==
  /\ transport.recv_paused
  /\ gen.alive
  /\ ~C28_GenTerminal
  /\ stream.closes = 0

====
